---- MODULE Spec2Model ----
(***************************************************************************)
(* SOCKS5 server of fast-socks: the acceptor of spawn_socks_server, the    *)
(* per-connection task serve_socks5 and spawn_and_log_error (src/main.rs), *)
(* over the protocol engine of the fast_socks5 library (handshake,         *)
(* authentication, request parsing, resolution, replies, relays).          *)
(*                                                                         *)
(* Spec follows MaxSessions connections side by side; PairSpec the first   *)
(* two of them; SessionSpec one connection with every configured pair of   *)
(* credentials and the payload of its relay; SessionFairSpec adds the      *)
(* fairness of the runtime, the resolver, the connect and the timers.      *)
(***************************************************************************)
EXTENDS Naturals, Sequences, FiniteSets, TLC

\* ---------------------------------------------------------------- bounds
MaxSessions == 2

Sessions == 1..MaxSessions
\* Payload bytes each side writes into one TCP relay.
MaxBytes == 2
\* Opt::request_timeout, default_value = "10" (seconds).
RequestTimeoutDefault == 10

\* ------------------------------------------------------------ vocabulary
Methods == {"NoAuth", "Password", "Gssapi"}
Users == {"a", "b"}
Passwords == {"a", "b"}
Commands == {"TCPConnect", "TCPBind", "UDPAssociate"}
CommandBytes == Commands \cup {"Reserved"}
AddrTypes == {"IPv4", "IPv6", "Domain"}
AddrTypeBytes == AddrTypes \cup {"BadType"}
ConnectErrors == {"refused", "net_unreachable", "host_unreachable", "timeout", "other"}
ErrorReplies == {"GeneralFailure", "ConnectionNotAllowed", "NetworkUnreachable",
                 "HostUnreachable", "ConnectionRefused", "TtlExpired",
                 "CommandNotSupported", "AddressTypeNotSupported"}
ReplyStatus == {"Succeeded"} \cup ErrorReplies
MethodFrames == {"Method:NoAuth", "Method:Password", "Method:NoAcceptable"}
AuthFrames == {"Auth:Ok", "Auth:Fail"}

NoFrame == [kind |-> "none"]
MethodsFrame(v, ms) == [kind |-> "methods", ver_ok |-> v, methods |-> ms]
CredsFrame(u, p) == [kind |-> "creds", user |-> u, pass |-> p]
RequestFrame(v, c, a) == [kind |-> "request", ver_ok |-> v, cmd |-> c, atyp |-> a]

\* The frames a client can put on the wire at each read point of the server.
ClientMethodsFrames ==
    {MethodsFrame(TRUE, ms) : ms \in SUBSET {"NoAuth", "Password"} \cup {{"Gssapi"}, Methods}}
        \cup {MethodsFrame(FALSE, {})}
ClientCredsFrames == {CredsFrame(u, p) : u \in Users, p \in Passwords}
ClientRequestFrames ==
    {RequestFrame(TRUE, c, a) : c \in Commands, a \in {"IPv4", "Domain"}}
        \cup {RequestFrame(TRUE, "Reserved", a) : a \in {"IPv4", "BadType"}}
        \cup {RequestFrame(TRUE, "TCPConnect", "BadType"),
              RequestFrame(FALSE, "TCPConnect", "IPv4")}

\* Opt::from_args: every combination of the command-line options.
Opts ==
    [auth : {"NoAuth", "Password"}, username : {"a"}, password : {"b"},
     skip_auth : BOOLEAN, allow_udp : BOOLEAN, public_addr : {"None", "Ip"},
     request_timeout : {RequestTimeoutDefault}]

\* Opt::from_args with every configured username and password (AuthMode::NoAuth
\* carries none: there the two fields keep the values of Opts).
SessionOpts ==
    {o \in [auth : {"NoAuth", "Password"}, username : Users, password : Passwords,
            skip_auth : BOOLEAN, allow_udp : BOOLEAN, public_addr : {"None", "Ip"},
            request_timeout : {RequestTimeoutDefault}] :
        o.auth = "NoAuth" => o \in Opts}

\* The payload bytes a relayed stream carries.
Bytes == {"x", "y"}

VARIABLES
    opt,            \* the leaked, read-only options
    srv,            \* spawn_socks_server: "init", "arg_error", "bind_error", "listening", "stopped"
    awaited,        \* sessions whose JoinHandle the acceptor is awaiting
    pc,             \* per session: the step serve_socks5 is at
    inbox,          \* per session: the client's frame in flight to the server
    method,         \* per session: the negotiated authentication method
    cmd,            \* per session: the parsed command
    addr,           \* per session: the parsed, then resolved, address type
    dns,            \* per session: the resolver's answer in flight to the session
    sent,           \* per session: the frames written to the client, in order
    reads,          \* per session: the kinds of frame read from the client, in order
    dst,            \* per session: destination TCP socket
    udp,            \* per session: UDP relay socket
    relayed,        \* per session: a relay loop has run
    result,         \* per session: what the task returned
    logged,         \* per session: spawn_and_log_error logged its error
    ctl,            \* per session: the client's end of the TCP connection, "open" or "closed"
    client_tx,      \* per session: payload bytes the client wrote into the relay
    dst_rx,         \* per session: payload bytes delivered to the destination
    dst_tx,         \* per session: payload bytes the destination wrote
    client_rx,      \* per session: payload bytes delivered to the client
    dgram           \* per session: the client's latest datagram: "none", "queued", "forwarded"

\* What travels through a relay.
wire == <<ctl, client_tx, dst_rx, dst_tx, client_rx, dgram>>

vars == <<opt, srv, awaited, pc, inbox, method, cmd, addr, dns, sent,
          reads, dst, udp, relayed, result, logged, wire>>

\* ------------------------------------------------------ src/main.rs code
\* Faulty variant: allow_udp is not checked against public_addr.
ArgsCheckNoUdpCheck(o) ==
    IF o.skip_auth /\ o.auth # "NoAuth" THEN "skip_auth_with_auth"
    ELSE "ok"

\* Faulty variant: skip_auth is not checked against the authentication mode.
ArgsCheckNoSkipCheck(o) ==
    IF o.allow_udp /\ o.public_addr = "None" THEN "udp_without_public_addr"
    ELSE "ok"

\* spawn_socks_server, the two argument checks before the bind.
ArgsCheck(o) ==
    IF o.allow_udp /\ o.public_addr = "None" THEN "udp_without_public_addr"
    ELSE IF o.skip_auth /\ o.auth # "NoAuth" THEN "skip_auth_with_auth"
    ELSE "ok"

\* Faulty variant: password mode negotiates with the no-authentication entry point.
AuthEntryNoAuthArm(o) ==
    IF o.auth = "NoAuth" /\ o.skip_auth THEN "skip_auth" ELSE "accept_no_auth"

\* Faulty variant: the handshake is skipped whenever skip_auth is not set.
AuthEntrySkipInverted(o) ==
    IF o.auth = "NoAuth" /\ ~o.skip_auth THEN "skip_auth"
    ELSE IF o.auth = "NoAuth" THEN "accept_no_auth"
    ELSE "accept_password_auth"

\* Faulty variant: every mode takes the skip-auth fast path.
AuthEntrySkipAll(o) == "skip_auth"

\* serve_socks5, the match on opt.auth that picks the protocol entry point.
AuthEntry(o) ==
    IF o.auth = "NoAuth" /\ o.skip_auth THEN "skip_auth"
    ELSE IF o.auth = "NoAuth" THEN "accept_no_auth"
    ELSE "accept_password_auth"

\* Faulty variant: the closure accepts when either field matches.
check_either(o, user, pass) == user = o.username \/ pass = o.password

\* The closure handed to accept_password_auth.
check(o, user, pass) == user = o.username /\ pass = o.password

\* Faulty variant: the error of read_command is ignored.
TryReadCommandIgnores(ok) == "continue"

\* The `?` after read_command().await: an error returns from the task.
TryReadCommand(ok) == IF ok THEN "continue" ELSE "return_err"

\* Faulty variant: the error of resolve_dns is ignored.
TryResolveDnsIgnores(ok) == "continue"

\* The `?` after resolve_dns().await: an error returns from the task.
TryResolveDns(ok) == IF ok THEN "continue" ELSE "return_err"

\* Faulty variant: the allow_udp guard of the UDPAssociate arm is missing.
MatchCmdUdpUnguarded(c, o) ==
    IF c = "TCPConnect" THEN "run_tcp_proxy"
    ELSE IF c = "UDPAssociate" THEN "run_udp_proxy"
    ELSE "reply_error"

\* Faulty variant: the TCPBind command is served like TCPConnect.
MatchCmdBindConnects(c, o) ==
    IF c \in {"TCPConnect", "TCPBind"} THEN "run_tcp_proxy"
    ELSE IF c = "UDPAssociate" /\ o.allow_udp THEN "run_udp_proxy"
    ELSE "reply_error"

\* serve_socks5, the match on cmd.
MatchCmd(c, o) ==
    IF c = "TCPConnect" THEN "run_tcp_proxy"
    ELSE IF c = "UDPAssociate" /\ o.allow_udp THEN "run_udp_proxy"
    ELSE "reply_error"

\* Faulty variant: the accept loop awaits the JoinHandle of the session it spawned.
AwaitedAfterSpawnJoin(aw, s) == aw \cup {s}

\* The accept loop drops the JoinHandle of the spawned task and loops.
AwaitedAfterSpawn(aw, s) == aw

\* serve_socks5, the timeout argument of run_tcp_proxy.
TcpProxyTimeout(o) == o.request_timeout

\* Faulty variant: the task's error is returned to the accept loop, which ends.
TaskEndAborts(s, res) ==
    /\ result' = [result EXCEPT ![s] = res]
    /\ logged' = [logged EXCEPT ![s] = (res # "Ok")]
    /\ srv' = IF res # "Ok" THEN "stopped" ELSE srv

\* Faulty variant: the error flag is one flag that all the tasks share.
TaskEndSharedFlag(s, res) ==
    /\ result' = [result EXCEPT ![s] = res]
    /\ logged' = [t \in Sessions |-> logged[t] \/ res # "Ok"]
    /\ srv' = srv

\* spawn_and_log_error: the task's error is logged, nothing else happens.
TaskEnd(s, res) ==
    /\ result' = [result EXCEPT ![s] = res]
    /\ logged' = [logged EXCEPT ![s] = (res # "Ok")]
    /\ srv' = srv

\* ------------------------------------------- fast_socks5 protocol engine
\* Handshake negotiator: the method the entry point accepts, if offered.
SelectMethod(entry, offered) ==
    IF entry = "accept_no_auth" /\ "NoAuth" \in offered THEN "NoAuth"
    ELSE IF entry = "accept_password_auth" /\ "Password" \in offered THEN "Password"
    ELSE "NoAcceptable"

\* Request parser: the error reply of a request frame, or "ok".
ParseRequest(f) ==
    IF ~f.ver_ok THEN "GeneralFailure"
    ELSE IF f.cmd \notin Commands THEN "CommandNotSupported"
    ELSE IF f.atyp \notin AddrTypes THEN "AddressTypeNotSupported"
    ELSE "ok"

\* Destination resolver: the answers a lookup can give; the first usable address
\* of a successful lookup is an IPv4 or an IPv6 one.
DnsAnswers == {"fail", "IPv4", "IPv6"}

\* Destination resolver: an IP address needs no lookup, a domain name waits for one.
NeedsLookup(a) == a = "Domain"

\* Faulty variant: a connect timeout is reported as success.
ConnectErrorReplyTimeoutOk(e) ==
    CASE e = "refused" -> "ConnectionRefused"
      [] e = "net_unreachable" -> "NetworkUnreachable"
      [] e = "host_unreachable" -> "HostUnreachable"
      [] e = "timeout" -> "Succeeded"
      [] OTHER -> "GeneralFailure"

\* TCP relay: the reply for a failed connect.
ConnectErrorReply(e) ==
    CASE e = "refused" -> "ConnectionRefused"
      [] e = "net_unreachable" -> "NetworkUnreachable"
      [] e = "host_unreachable" -> "HostUnreachable"
      [] OTHER -> "GeneralFailure"

\* Faulty variant: the relay loops run without an idle limit.
RelayIdleLimitsNone(t) == {}

\* TCP relay: the idle limits a relay loop derives from the timeout it is given.
RelayIdleLimits(t) == {t}

\* Faulty variant: the UDP relay does not watch its control connection.
UdpEndEventsNoControl == {"inactivity", "io_error"}

\* UDP relay: the events that end an association.
UdpEndEvents == {"control_closed", "inactivity", "io_error"}

\* Faulty variant: the relay delivers the newest byte it holds, not the oldest.
CopyNextNewest(src, n) == src[Len(src)]

\* TCP relay: the byte the copy delivers next when n bytes of src are delivered.
CopyNext(src, n) == src[n + 1]

\* ---------------------------------------------------------------- state
Reset ==
    /\ srv = "init"
    /\ awaited = {}
    /\ pc = [s \in Sessions |-> "Idle"]
    /\ inbox = [s \in Sessions |-> NoFrame]
    /\ method = [s \in Sessions |-> "none"]
    /\ cmd = [s \in Sessions |-> "none"]
    /\ addr = [s \in Sessions |-> "none"]
    /\ dns = [s \in Sessions |-> "none"]
    /\ sent = [s \in Sessions |-> <<>>]
    /\ reads = [s \in Sessions |-> <<>>]
    /\ dst = [s \in Sessions |-> "none"]
    /\ udp = [s \in Sessions |-> "none"]
    /\ relayed = [s \in Sessions |-> FALSE]
    /\ result = [s \in Sessions |-> "none"]
    /\ logged = [s \in Sessions |-> FALSE]
    /\ ctl = [s \in Sessions |-> "open"]
    /\ client_tx = [s \in Sessions |-> <<>>]
    /\ dst_rx = [s \in Sessions |-> <<>>]
    /\ dst_tx = [s \in Sessions |-> <<>>]
    /\ client_rx = [s \in Sessions |-> <<>>]
    /\ dgram = [s \in Sessions |-> "none"]

Init == opt \in Opts /\ Reset

SessionInit == opt \in SessionOpts /\ Reset

\* serve_socks5 returns: the session's sockets and addresses are dropped (cmd is
\* kept as the record of the command the session was asked to serve).
Finish(s, res, out, rd) ==
    /\ pc' = [pc EXCEPT ![s] = "Closed"]
    /\ sent' = [sent EXCEPT ![s] = @ \o out]
    /\ reads' = [reads EXCEPT ![s] = @ \o rd]
    /\ inbox' = [inbox EXCEPT ![s] = NoFrame]
    /\ addr' = [addr EXCEPT ![s] = "none"]
    /\ dns' = [dns EXCEPT ![s] = "none"]
    /\ dst' = [dst EXCEPT ![s] = IF @ = "none" THEN "none" ELSE "closed"]
    /\ udp' = [udp EXCEPT ![s] = IF @ = "none" THEN "none" ELSE "closed"]
    /\ TaskEnd(s, res)
    /\ UNCHANGED <<wire, opt, awaited, method, cmd, relayed>>

\* ------------------------------------------------------------- acceptor
\* spawn_socks_server up to the bind.
Startup ==
    /\ srv = "init"
    /\ \/ ArgsCheck(opt) # "ok" /\ srv' = "arg_error"
       \/ ArgsCheck(opt) = "ok" /\ srv' \in {"listening", "bind_error"}
    /\ UNCHANGED <<wire, opt, awaited, pc, inbox, method, cmd, addr, dns, sent, reads, dst,
                   udp, relayed, result, logged>>

\* The acceptor is at listener.accept(): it is bound and awaits no session.
AcceptorReady ==
    /\ srv = "listening"
    /\ \A t \in awaited : pc[t] = "Closed"

\* Connection attempts reach the listener one after the other.
NextAttempt(s) ==
    /\ pc[s] = "Idle"
    /\ \A t \in Sessions : t < s => pc[t] # "Idle"

\* listener.accept() returned Ok: the session is spawned.
AcceptOk(s) ==
    /\ AcceptorReady
    /\ NextAttempt(s)
    /\ pc' = [pc EXCEPT ![s] = "Start"]
    /\ awaited' = AwaitedAfterSpawn(awaited, s)
    /\ UNCHANGED <<wire, opt, srv, inbox, method, cmd, addr, dns, sent, reads, dst, udp,
                   relayed, result, logged>>

\* listener.accept() returned Err: logged, no session, the loop goes on.
AcceptErr(s) ==
    /\ AcceptorReady
    /\ NextAttempt(s)
    /\ pc' = [pc EXCEPT ![s] = "AcceptFailed"]
    /\ logged' = [logged EXCEPT ![s] = TRUE]
    /\ UNCHANGED <<wire, opt, srv, awaited, inbox, method, cmd, addr, dns, sent, reads, dst,
                   udp, relayed, result>>

\* --------------------------------------------------------------- client
ReadPoint(s) ==
    \/ pc[s] = "Handshake"
    \/ pc[s] = "Authenticating" /\ method[s] = "Password"
    \/ pc[s] = "ReadCommand"

FramesAt(s) ==
    IF pc[s] = "Handshake" THEN ClientMethodsFrames
    ELSE IF pc[s] = "Authenticating" THEN ClientCredsFrames
    ELSE ClientRequestFrames

\* The client writes the frame the server is waiting for.
ClientSend(s) ==
    /\ ReadPoint(s)
    /\ inbox[s] = NoFrame
    /\ \E f \in FramesAt(s) : inbox' = [inbox EXCEPT ![s] = f]
    /\ UNCHANGED <<wire, opt, srv, awaited, pc, method, cmd, addr, dns, sent, reads, dst,
                   udp, relayed, result, logged>>

\* The resolver answers the lookup of a domain name.
DnsAnswer(s) ==
    /\ pc[s] = "Resolving"
    /\ NeedsLookup(addr[s])
    /\ dns[s] = "none"
    /\ \E a \in DnsAnswers : dns' = [dns EXCEPT ![s] = a]
    /\ UNCHANGED <<wire, opt, srv, awaited, pc, inbox, method, cmd, addr, sent, reads, dst,
                   udp, relayed, result, logged>>

\* -------------------------------------------------------------- session
\* serve_socks5 starts: the entry point is chosen from opt.
SessionStart(s) ==
    /\ pc[s] = "Start"
    /\ pc' = [pc EXCEPT ![s] = IF AuthEntry(opt) = "skip_auth" THEN "ReadCommand"
                                  ELSE "Handshake"]
    /\ UNCHANGED <<wire, opt, srv, awaited, inbox, method, cmd, addr, dns, sent, reads, dst,
                   udp, relayed, result, logged>>

\* The client closed its side: the pending read fails with an I/O error.
ReadFails(s) ==
    /\ ReadPoint(s)
    /\ inbox[s] = NoFrame
    /\ Finish(s, "Io", <<>>, <<>>)

\* accept_no_auth / accept_password_auth: method negotiation.
Handshake(s) ==
    /\ pc[s] = "Handshake"
    /\ inbox[s].kind = "methods"
    /\ LET f == inbox[s]
           m == SelectMethod(AuthEntry(opt), f.methods)
       IN  IF ~f.ver_ok
           THEN Finish(s, "UnsupportedSocksVersion", <<>>, <<"methods">>)
           ELSE IF m = "NoAcceptable"
           THEN Finish(s, "AuthMethodUnacceptable", <<"Method:NoAcceptable">>,
                       <<"methods">>)
           ELSE /\ pc' = [pc EXCEPT ![s] = "Authenticating"]
                /\ method' = [method EXCEPT ![s] = m]
                /\ sent' = [sent EXCEPT ![s] = Append(@, "Method:" \o m)]
                /\ reads' = [reads EXCEPT ![s] = Append(@, "methods")]
                /\ inbox' = [inbox EXCEPT ![s] = NoFrame]
                /\ UNCHANGED <<wire, opt, srv, awaited, cmd, addr, dns, dst, udp, relayed,
                               result, logged>>

\* No-authentication method: immediate success, nothing exchanged.
AuthNone(s) ==
    /\ pc[s] = "Authenticating"
    /\ method[s] = "NoAuth"
    /\ pc' = [pc EXCEPT ![s] = "ReadCommand"]
    /\ UNCHANGED <<wire, opt, srv, awaited, inbox, method, cmd, addr, dns, sent, reads, dst,
                   udp, relayed, result, logged>>

\* Username/password sub-negotiation with the closure of serve_socks5.
AuthPassword(s) ==
    /\ pc[s] = "Authenticating"
    /\ method[s] = "Password"
    /\ inbox[s].kind = "creds"
    /\ IF check(opt, inbox[s].user, inbox[s].pass)
       THEN /\ pc' = [pc EXCEPT ![s] = "ReadCommand"]
            /\ sent' = [sent EXCEPT ![s] = Append(@, "Auth:Ok")]
            /\ reads' = [reads EXCEPT ![s] = Append(@, "creds")]
            /\ inbox' = [inbox EXCEPT ![s] = NoFrame]
            /\ UNCHANGED <<wire, opt, srv, awaited, method, cmd, addr, dns, dst, udp,
                           relayed, result, logged>>
       ELSE Finish(s, "AuthenticationRejected", <<"Auth:Fail">>, <<"creds">>)

\* read_command().await?
ReadCommand(s) ==
    /\ pc[s] = "ReadCommand"
    /\ inbox[s].kind = "request"
    /\ LET f == inbox[s]
           r == ParseRequest(f)
           out == IF r = "ok" THEN <<>> ELSE <<r>>
       IN  IF TryReadCommand(r = "ok") = "return_err"
           THEN Finish(s, r, out, <<"request">>)
           ELSE /\ pc' = [pc EXCEPT ![s] = "Resolving"]
                /\ cmd' = [cmd EXCEPT ![s] = f.cmd]
                /\ addr' = [addr EXCEPT ![s] = f.atyp]
                /\ sent' = [sent EXCEPT ![s] = @ \o out]
                /\ reads' = [reads EXCEPT ![s] = Append(@, "request")]
                /\ inbox' = [inbox EXCEPT ![s] = NoFrame]
                /\ UNCHANGED <<wire, opt, srv, awaited, method, dns, dst, udp, relayed,
                               result, logged>>

\* The match on cmd, entered once resolve_dns has returned; `out` holds the frames
\* resolve_dns wrote and `a` the address it returned.
Dispatch(s, out, a) ==
    LET branch == MatchCmd(cmd[s], opt)
    IN  IF branch = "run_tcp_proxy"
        THEN /\ pc' = [pc EXCEPT ![s] = "Connecting"]
             /\ dst' = [dst EXCEPT ![s] = "connecting"]
             /\ sent' = [sent EXCEPT ![s] = @ \o out]
             /\ addr' = [addr EXCEPT ![s] = a]
             /\ dns' = [dns EXCEPT ![s] = "none"]
             /\ UNCHANGED <<wire, opt, srv, awaited, inbox, method, cmd, reads, udp, relayed,
                            result, logged>>
        ELSE IF branch = "run_udp_proxy"
        THEN IF opt.public_addr = "None"
             THEN Finish(s, "invalid reply ip", out, <<>>)
             ELSE /\ pc' = [pc EXCEPT ![s] = "UdpRelay"]
                  /\ udp' = [udp EXCEPT ![s] = "bound"]
                  /\ sent' = [sent EXCEPT ![s] = @ \o out \o <<"Succeeded">>]
                  /\ relayed' = [relayed EXCEPT ![s] = TRUE]
                  /\ addr' = [addr EXCEPT ![s] = a]
                  /\ dns' = [dns EXCEPT ![s] = "none"]
                  /\ UNCHANGED <<wire, opt, srv, awaited, inbox, method, cmd, reads, dst,
                                 result, logged>>
        ELSE Finish(s, "CommandNotSupported", out \o <<"CommandNotSupported">>, <<>>)

\* resolve_dns().await? followed by the match on cmd.
ResolveDns(s) ==
    /\ pc[s] = "Resolving"
    /\ NeedsLookup(addr[s]) => dns[s] # "none"
    /\ LET ok == ~(NeedsLookup(addr[s]) /\ dns[s] = "fail")
           out == IF ok THEN <<>> ELSE <<"HostUnreachable">>
           a == IF NeedsLookup(addr[s]) THEN dns[s] ELSE addr[s]
       IN  IF TryResolveDns(ok) = "return_err"
           THEN Finish(s, "DnsResolveFailed", out, <<>>)
           ELSE Dispatch(s, out, a)

\* run_tcp_proxy: the connect succeeded; Succeeded is replied, the relay starts.
ConnectOk(s) ==
    /\ pc[s] = "Connecting"
    /\ pc' = [pc EXCEPT ![s] = "ConnectRelay"]
    /\ dst' = [dst EXCEPT ![s] = "open"]
    /\ sent' = [sent EXCEPT ![s] = Append(@, "Succeeded")]
    /\ relayed' = [relayed EXCEPT ![s] = TRUE]
    /\ UNCHANGED <<wire, opt, srv, awaited, inbox, method, cmd, addr, dns, reads, udp,
                   result, logged>>

\* run_tcp_proxy: the connect failed or timed out; the error is replied.
ConnectFails(s) ==
    /\ pc[s] = "Connecting"
    /\ \E e \in ConnectErrors :
         Finish(s, "ConnectFailed", <<ConnectErrorReply(e)>>, <<>>)

\* The TCP relay ends: one side closed (Ok) or a copy failed (Err).
TcpRelayEnds(s) ==
    /\ pc[s] = "ConnectRelay"
    /\ \E res \in {"Ok", "Io"} : Finish(s, res, <<>>, <<>>)

\* Every byte written into the TCP relay has been delivered.
RelayIdle(s) == dst_rx[s] = client_tx[s] /\ client_rx[s] = dst_tx[s]

\* The TCP relay saw no data for its idle limit: the session is torn down and
\* no reply is sent.
TcpRelayTimeout(s) ==
    /\ pc[s] = "ConnectRelay"
    /\ RelayIdle(s)
    /\ RelayIdleLimits(TcpProxyTimeout(opt)) # {}
    /\ Finish(s, "IdleTimeout", <<>>, <<>>)

\* The client closes the TCP control connection of its UDP association.
ClientClosesControl(s) ==
    /\ pc[s] = "UdpRelay"
    /\ ctl[s] = "open"
    /\ ctl' = [ctl EXCEPT ![s] = "closed"]
    /\ UNCHANGED <<opt, srv, awaited, pc, inbox, method, cmd, addr, dns, sent, reads,
                   dst, udp, relayed, result, logged, client_tx, dst_rx, dst_tx,
                   client_rx, dgram>>

\* The UDP relay ends: the control connection closed (Ok) or an I/O error.
UdpRelayEnds(s) ==
    /\ pc[s] = "UdpRelay"
    /\ \E res \in {"Ok", "Io"} :
         /\ res = "Ok" => ctl[s] = "closed" /\ "control_closed" \in UdpEndEvents
         /\ Finish(s, res, <<>>, <<>>)

\* The UDP relay saw no datagram for its inactivity limit.
UdpRelayTimeout(s) ==
    /\ pc[s] = "UdpRelay"
    /\ dgram[s] # "queued"
    /\ "inactivity" \in UdpEndEvents
    /\ Finish(s, "IdleTimeout", <<>>, <<>>)

\* The client sends a datagram to the address of the UDP relay socket.
ClientDatagram(s) ==
    /\ udp[s] # "none"
    /\ dgram[s] # "queued"
    /\ dgram' = [dgram EXCEPT ![s] = "queued"]
    /\ UNCHANGED <<opt, srv, awaited, pc, inbox, method, cmd, addr, dns, sent, reads,
                   dst, udp, relayed, result, logged, ctl, client_tx, dst_rx, dst_tx,
                   client_rx>>

\* The client writes one payload byte into the TCP relay.
ClientWrites(s) ==
    /\ pc[s] = "ConnectRelay"
    /\ Len(client_tx[s]) < MaxBytes
    /\ \E b \in Bytes : client_tx' = [client_tx EXCEPT ![s] = Append(@, b)]
    /\ UNCHANGED <<opt, srv, awaited, pc, inbox, method, cmd, addr, dns, sent, reads,
                   dst, udp, relayed, result, logged, ctl, dst_rx, dst_tx, client_rx,
                   dgram>>

\* The destination writes one payload byte into the TCP relay.
DstWrites(s) ==
    /\ pc[s] = "ConnectRelay"
    /\ Len(dst_tx[s]) < MaxBytes
    /\ \E b \in Bytes : dst_tx' = [dst_tx EXCEPT ![s] = Append(@, b)]
    /\ UNCHANGED <<opt, srv, awaited, pc, inbox, method, cmd, addr, dns, sent, reads,
                   dst, udp, relayed, result, logged, ctl, client_tx, dst_rx, client_rx,
                   dgram>>

\* The TCP relay copies one byte from the client to the destination.
RelayToDst(s) ==
    /\ pc[s] = "ConnectRelay"
    /\ Len(dst_rx[s]) < Len(client_tx[s])
    /\ dst_rx' = [dst_rx EXCEPT ![s] = Append(@, CopyNext(client_tx[s], Len(@)))]
    /\ UNCHANGED <<opt, srv, awaited, pc, inbox, method, cmd, addr, dns, sent, reads,
                   dst, udp, relayed, result, logged, ctl, client_tx, dst_tx, client_rx,
                   dgram>>

\* The TCP relay copies one byte from the destination to the client.
RelayToClient(s) ==
    /\ pc[s] = "ConnectRelay"
    /\ Len(client_rx[s]) < Len(dst_tx[s])
    /\ client_rx' = [client_rx EXCEPT ![s] = Append(@, CopyNext(dst_tx[s], Len(@)))]
    /\ UNCHANGED <<opt, srv, awaited, pc, inbox, method, cmd, addr, dns, sent, reads,
                   dst, udp, relayed, result, logged, ctl, client_tx, dst_rx, dst_tx,
                   dgram>>

\* The UDP relay forwards the datagram it received on its socket.
UdpForward(s) ==
    /\ pc[s] = "UdpRelay"
    /\ udp[s] = "bound"
    /\ dgram[s] = "queued"
    /\ dgram' = [dgram EXCEPT ![s] = "forwarded"]
    /\ UNCHANGED <<opt, srv, awaited, pc, inbox, method, cmd, addr, dns, sent, reads,
                   dst, udp, relayed, result, logged, ctl, client_tx, dst_rx, dst_tx,
                   client_rx>>

Next ==
    \/ Startup
    \/ \E s \in Sessions :
         \/ AcceptOk(s)
         \/ AcceptErr(s)
         \/ ClientSend(s)
         \/ DnsAnswer(s)
         \/ SessionStart(s)
         \/ ReadFails(s)
         \/ Handshake(s)
         \/ AuthNone(s)
         \/ AuthPassword(s)
         \/ ReadCommand(s)
         \/ ResolveDns(s)
         \/ ConnectOk(s)
         \/ ConnectFails(s)
         \/ TcpRelayEnds(s)
         \/ TcpRelayTimeout(s)
         \/ ClientClosesControl(s)
         \/ UdpRelayEnds(s)
         \/ UdpRelayTimeout(s)

Spec == Init /\ [][Next]_vars

\* One connection followed in detail: the payload of its relay is modelled.
OnlySession == {s \in Sessions : \A t \in Sessions : s <= t}

SessionNext ==
    \/ Startup
    \/ \E s \in OnlySession :
         \/ AcceptOk(s)
         \/ AcceptErr(s)
         \/ ClientSend(s)
         \/ DnsAnswer(s)
         \/ SessionStart(s)
         \/ ReadFails(s)
         \/ Handshake(s)
         \/ AuthNone(s)
         \/ AuthPassword(s)
         \/ ReadCommand(s)
         \/ ResolveDns(s)
         \/ ConnectOk(s)
         \/ ConnectFails(s)
         \/ TcpRelayEnds(s)
         \/ TcpRelayTimeout(s)
         \/ ClientClosesControl(s)
         \/ UdpRelayEnds(s)
         \/ UdpRelayTimeout(s)
         \/ ClientWrites(s)
         \/ DstWrites(s)
         \/ RelayToDst(s)
         \/ RelayToClient(s)
         \/ ClientDatagram(s)
         \/ UdpForward(s)

SessionSpec == SessionInit /\ [][SessionNext]_vars

\* Two connections side by side: the first two the listener accepts.
Pair == OnlySession \cup {s \in Sessions : s - 1 \in OnlySession}

PairNext ==
    \/ Startup
    \/ \E s \in Pair :
         \/ AcceptOk(s)
         \/ AcceptErr(s)
         \/ ClientSend(s)
         \/ DnsAnswer(s)
         \/ SessionStart(s)
         \/ ReadFails(s)
         \/ Handshake(s)
         \/ AuthNone(s)
         \/ AuthPassword(s)
         \/ ReadCommand(s)
         \/ ResolveDns(s)
         \/ ConnectOk(s)
         \/ ConnectFails(s)
         \/ TcpRelayEnds(s)
         \/ TcpRelayTimeout(s)
         \/ ClientClosesControl(s)
         \/ UdpRelayEnds(s)
         \/ UdpRelayTimeout(s)

PairSpec == Init /\ [][PairNext]_vars

\* The steps the runtime, the resolver, the connect and the timers take without
\* the client: a spawned task is polled whenever it can proceed, a lookup and a
\* connect return, an idle limit elapses, a closed control connection is seen.
TaskStep(s) ==
    \/ SessionStart(s)
    \/ Handshake(s)
    \/ AuthNone(s)
    \/ AuthPassword(s)
    \/ ReadCommand(s)
    \/ ResolveDns(s)
    \/ RelayToDst(s)
    \/ RelayToClient(s)
    \/ UdpForward(s)

Fairness ==
    \A s \in Sessions :
        /\ WF_vars(TaskStep(s))
        /\ WF_vars(DnsAnswer(s))
        /\ WF_vars(ConnectOk(s) \/ ConnectFails(s))
        /\ WF_vars(TcpRelayTimeout(s))
        /\ WF_vars(UdpRelayTimeout(s))
        /\ WF_vars(UdpRelayEnds(s) /\ result'[s] = "Ok")

SessionFairSpec == SessionInit /\ [][SessionNext]_vars /\ Fairness

TypeOK ==
    /\ opt \in SessionOpts
    /\ srv \in {"init", "arg_error", "bind_error", "listening"}
    /\ awaited \subseteq Sessions
    /\ \A s \in Sessions :
         /\ pc[s] \in {"Idle", "AcceptFailed", "Start", "Handshake", "Authenticating",
                       "ReadCommand", "Resolving", "Connecting", "ConnectRelay",
                       "UdpRelay", "Closed"}
         /\ method[s] \in {"none", "NoAuth", "Password"}
         /\ cmd[s] \in Commands \cup {"none"}
         /\ addr[s] \in AddrTypes \cup {"none"}
         /\ dns[s] \in DnsAnswers \cup {"none"}
         /\ dst[s] \in {"none", "connecting", "open", "closed"}
         /\ udp[s] \in {"none", "bound", "closed"}
         /\ relayed[s] \in BOOLEAN
         /\ logged[s] \in BOOLEAN
         /\ ctl[s] \in {"open", "closed"}
         /\ client_tx[s] \in Seq(Bytes) /\ Len(client_tx[s]) <= MaxBytes
         /\ dst_tx[s] \in Seq(Bytes) /\ Len(dst_tx[s]) <= MaxBytes
         /\ dst_rx[s] \in Seq(Bytes) /\ client_rx[s] \in Seq(Bytes)
         /\ dgram[s] \in {"none", "queued", "forwarded"}

\* ============================================================== claims
\* The reply frames a session has sent, in order.
Replies(s) == SelectSeq(sent[s], LAMBDA f : f \in ReplyStatus)
Relaying(s) == pc[s] \in {"ConnectRelay", "UdpRelay"}
Failed(s) == result[s] \notin {"none", "Ok"}
Running == srv = "listening"
\* The methods the configured authentication mode accepts.
PolicyMethods == IF opt.auth = "NoAuth" THEN {"NoAuth"} ELSE {"Password"}
\* Session s takes a step of its own task.
Steps(s) == pc'[s] # pc[s]

\* C1: a session relays, or has relayed, only after it sent exactly the reply
\* Succeeded; a session with an error reply or with no reply is never in a relay
\* state. Both relay paths (Connect and UdpAssociate) are covered.
C1_SucceededBeforeRelay ==
    \A s \in Sessions :
        (Relaying(s) \/ relayed[s]) => Replies(s) = <<"Succeeded">>

C1_Witness ==
    \E s, t \in Sessions :
        /\ pc[s] = "ConnectRelay" /\ Replies(s) = <<"Succeeded">>
        /\ pc[t] = "UdpRelay" /\ Replies(t) = <<"Succeeded">>

\* C2 (as stated): in a running server without public address every parsed
\* UDPAssociate request ends with the single reply CommandNotSupported and an
\* error, and no UDP socket ever exists.
C2_Original ==
    [][\A s \in Sessions :
          /\ (Running /\ opt.public_addr = "None" /\ cmd[s] = "UDPAssociate"
                /\ Steps(s) /\ pc'[s] = "Closed")
               => (Replies(s)' = <<"CommandNotSupported">> /\ Failed(s)')
          /\ (Running /\ opt.public_addr = "None") => udp'[s] = "none"]_vars

\* C2 (amended): in a running server without public address a parsed
\* UDPAssociate request ends with an error, a single reply and no UDP socket;
\* the reply is HostUnreachable when the destination is a domain name whose
\* resolution failed and CommandNotSupported in every other case.
C2_UdpRejectedWithoutPublicAddr ==
    [][\A s \in Sessions :
          /\ (Running /\ opt.public_addr = "None" /\ cmd[s] = "UDPAssociate"
                /\ Steps(s) /\ pc'[s] = "Closed")
               => /\ Failed(s)'
                  /\ Replies(s)' = IF addr[s] = "Domain" /\ dns[s] = "fail"
                                   THEN <<"HostUnreachable">>
                                   ELSE <<"CommandNotSupported">>
          /\ (Running /\ opt.public_addr = "None") => udp'[s] = "none"]_vars

C2_Witness ==
    /\ Running /\ opt.public_addr = "None"
    /\ \E s, t \in Sessions :
         /\ pc[s] = "Closed" /\ cmd[s] = "UDPAssociate"
         /\ Replies(s) = <<"CommandNotSupported">> /\ Failed(s) /\ udp[s] = "none"
         /\ pc[t] = "Closed" /\ cmd[t] = "UDPAssociate"
         /\ Replies(t) = <<"HostUnreachable">> /\ Failed(t) /\ udp[t] = "none"

\* C3: in password mode, when the credentials frame is consumed, correct
\* credentials give the success byte and the session goes on to read the
\* request; incorrect ones give the failure byte and the session closes; a
\* session that got the failure byte has read no request, sent no reply frame
\* and relayed nothing.
C3_PasswordAuth ==
    [][\A s \in Sessions :
          /\ (opt.auth = "Password" /\ pc[s] = "Authenticating"
                /\ inbox[s].kind = "creds" /\ Steps(s))
               => IF inbox[s].user = opt.username /\ inbox[s].pass = opt.password
                  THEN /\ sent'[s] = Append(sent[s], "Auth:Ok")
                       /\ pc'[s] = "ReadCommand"
                  ELSE /\ sent'[s] = Append(sent[s], "Auth:Fail")
                       /\ pc'[s] = "Closed"
          /\ (\E i \in DOMAIN sent'[s] : sent'[s][i] = "Auth:Fail")
               => /\ pc'[s] = "Closed"
                  /\ \A i \in DOMAIN reads'[s] : reads'[s][i] # "request"
                  /\ Replies(s)' = <<>>
                  /\ ~relayed'[s]]_vars

C3_Witness ==
    \E s, t \in Sessions :
        /\ pc[s] = "Closed" /\ sent[s] = <<"Method:Password", "Auth:Fail">>
        /\ reads[s] = <<"methods", "creds">>
        /\ sent[t] = <<"Method:Password", "Auth:Ok">>
        /\ reads[t] = <<"methods", "creds", "request">>

\* C4: when the consumed handshake offers no method the configured policy
\* accepts, the session sends the no-acceptable-methods marker and closes; such
\* a session has read nothing but the handshake, parsed no request and sent no
\* reply frame.
C4_NoAcceptableMethod ==
    [][\A s \in Sessions :
          /\ (pc[s] = "Handshake" /\ inbox[s].kind = "methods" /\ inbox[s].ver_ok
                /\ inbox[s].methods \cap PolicyMethods = {} /\ Steps(s))
               => /\ sent'[s] = <<"Method:NoAcceptable">>
                  /\ pc'[s] = "Closed"
          /\ (\E i \in DOMAIN sent'[s] : sent'[s][i] = "Method:NoAcceptable")
               => /\ pc'[s] = "Closed"
                  /\ reads'[s] = <<"methods">>
                  /\ cmd'[s] = "none"
                  /\ Replies(s)' = <<>>
                  /\ ~relayed'[s]]_vars

C4_Witness ==
    \E s \in Sessions :
        /\ pc[s] = "Closed"
        /\ sent[s] = <<"Method:NoAcceptable">>
        /\ reads[s] = <<"methods">>
        /\ result[s] = "AuthMethodUnacceptable"

\* A session turned away: one error reply `r`, no socket, no relay, an error.
RejectedWith(s, r) ==
    /\ pc[s] = "Closed"
    /\ Replies(s) = <<r>>
    /\ dst[s] = "none" /\ udp[s] = "none"
    /\ ~relayed[s]
    /\ Failed(s)

\* The request frame being consumed carries a command byte that is no command.
ReadsReservedCommand(s) ==
    /\ pc[s] = "ReadCommand" /\ inbox[s].kind = "request" /\ Steps(s)
    /\ inbox[s].ver_ok /\ inbox[s].cmd \notin Commands
    /\ inbox[s].atyp \in AddrTypes

\* C5 (as stated): a request whose command is Bind, or no command at all, is
\* turned away with CommandNotSupported whatever its address form, and a Bind
\* session never opens a destination socket nor relays.
C5_Original ==
    [][\A s \in Sessions :
          /\ (cmd[s] = "TCPBind" /\ Steps(s))
               => RejectedWith(s, "CommandNotSupported")'
          /\ ReadsReservedCommand(s) => RejectedWith(s, "CommandNotSupported")'
          /\ cmd'[s] = "TCPBind" => (dst'[s] = "none" /\ ~relayed'[s])]_vars

\* C5 (amended): as stated, except that a Bind request whose destination is a
\* domain name that fails to resolve is turned away with HostUnreachable.
C5_BindRejected ==
    [][\A s \in Sessions :
          /\ (cmd[s] = "TCPBind" /\ Steps(s))
               => IF addr[s] = "Domain" /\ dns[s] = "fail"
                  THEN RejectedWith(s, "HostUnreachable")'
                  ELSE RejectedWith(s, "CommandNotSupported")'
          /\ ReadsReservedCommand(s) => RejectedWith(s, "CommandNotSupported")'
          /\ cmd'[s] = "TCPBind" => (dst'[s] = "none" /\ ~relayed'[s])]_vars

C5_Witness ==
    \E s, t \in Sessions :
        /\ cmd[s] = "TCPBind" /\ RejectedWith(s, "CommandNotSupported")
        /\ cmd[t] = "TCPBind" /\ RejectedWith(t, "HostUnreachable")

\* C6: once the listener is bound it stays bound and the acceptor stays at
\* accept(), whatever sessions and accept() return; a session that ends with an
\* error, and a failed accept(), are logged and change nothing else.
C6_AcceptLoopNeverStops ==
    [][Running =>
          /\ Running' /\ AcceptorReady'
          /\ \A s \in Sessions :
               (Steps(s) /\ pc'[s] = "Closed" /\ result'[s] # "Ok") => logged'[s]]_vars

C6_Witness ==
    /\ AcceptorReady
    /\ \E s, t \in Sessions :
         /\ s < t
         /\ pc[s] = "Closed" /\ Failed(s) /\ logged[s]
         /\ pc[t] = "AcceptFailed"

\* Session s is blocked at a suspension point of its task.
Blocked(s) ==
    \/ ReadPoint(s) /\ inbox[s] = NoFrame
    \/ pc[s] = "Resolving" /\ NeedsLookup(addr[s]) /\ dns[s] = "none"
    \/ pc[s] \in {"Connecting", "ConnectRelay", "UdpRelay"}

\* C7: whenever the server is listening and a further connection arrives, the
\* acceptor can accept it at once, whatever step the earlier sessions are at.
C7_AcceptNeverWaits ==
    \A s \in Sessions : (Running /\ NextAttempt(s)) => ENABLED AcceptOk(s)

C7_Witness ==
    \E s, t \in Sessions :
        /\ s < t
        /\ pc[s] = "Connecting" /\ Blocked(s)
        /\ pc[t] = "Handshake" /\ Blocked(t)

\* The state of the session state machine that a step of serve_socks5 is in.
SessionState(p) ==
    CASE p = "ReadCommand" -> "RequestParsed"
      [] p \in {"Connecting", "ConnectRelay"} -> "ConnectRelay"
      [] OTHER -> p

ChainEdges ==
    {<<"Start", "Handshake">>, <<"Handshake", "Authenticating">>,
     <<"Authenticating", "RequestParsed">>, <<"RequestParsed", "Resolving">>,
     <<"Resolving", "ConnectRelay">>, <<"Resolving", "UdpRelay">>,
     <<"ConnectRelay", "Closed">>, <<"UdpRelay", "Closed">>}

\* Session s leaves its state for Closed with an error.
ClosesOnError(s) == SessionState(pc[s])' = "Closed" /\ Failed(s)'

\* C8 (as stated): every change of state of a session follows the chain Start,
\* Handshake, Authenticating, RequestParsed, Resolving, one relay, Closed, or
\* goes directly to Closed on an error.
C8_Original ==
    [][\A s \in Sessions :
          (pc[s] # "Idle" /\ Steps(s) /\ SessionState(pc[s])' # SessionState(pc[s]))
            => \/ <<SessionState(pc[s]), SessionState(pc[s])'>> \in ChainEdges
               \/ ClosesOnError(s)]_vars

\* C8 (amended): as stated, except that in a server started with skip_auth a
\* session goes from Start directly to RequestParsed, never entering Handshake
\* and Authenticating; without skip_auth it goes from Start to Handshake.
C8_StateMachineOrder ==
    [][\A s \in Sessions :
          (pc[s] # "Idle" /\ Steps(s) /\ SessionState(pc[s])' # SessionState(pc[s]))
            => \/ /\ <<SessionState(pc[s]), SessionState(pc[s])'>> \in ChainEdges
                  /\ pc[s] = "Start" => ~opt.skip_auth
               \/ /\ <<SessionState(pc[s]), SessionState(pc[s])'>>
                        = <<"Start", "RequestParsed">>
                  /\ opt.skip_auth
               \/ ClosesOnError(s)]_vars

C8_Witness ==
    /\ opt.skip_auth
    /\ \E s, t \in Sessions :
         /\ pc[s] = "Closed" /\ result[s] = "Ok" /\ relayed[s]
         /\ sent[s] = <<"Succeeded">> /\ reads[s] = <<"request">>
         /\ method[s] = "none"
         /\ pc[t] = "ReadCommand" /\ reads[t] = <<>> /\ sent[t] = <<>>

\* Session s opens a destination socket or a UDP socket in this step.
OpensSocket(s) ==
    \/ dst[s] = "none" /\ dst'[s] # "none"
    \/ udp[s] = "none" /\ udp'[s] # "none"

\* C9: the lookup of a domain-name destination is answered only after the
\* command was parsed and while the session has no socket; a session with a
\* domain-name destination opens a socket only with a successful answer; and a
\* session whose lookup failed is turned away with HostUnreachable, with no
\* destination socket and no relay, whatever its command.
C9_ResolveBeforeSocket ==
    [][\A s \in Sessions :
          /\ (dns'[s] # dns[s] /\ dns'[s] # "none")
               => /\ cmd[s] \in Commands
                  /\ reads[s][Len(reads[s])] = "request"
                  /\ dst[s] = "none" /\ udp[s] = "none"
          /\ (OpensSocket(s) /\ addr[s] = "Domain") => dns[s] \in {"IPv4", "IPv6"}
          /\ (pc[s] = "Resolving" /\ addr[s] = "Domain" /\ dns[s] = "fail" /\ Steps(s))
               => RejectedWith(s, "HostUnreachable")']_vars

C9_Witness ==
    \E s, t \in Sessions :
        /\ cmd[s] = "TCPConnect" /\ result[s] = "DnsResolveFailed"
        /\ RejectedWith(s, "HostUnreachable")
        /\ cmd[t] = "UDPAssociate" /\ result[t] = "DnsResolveFailed"
        /\ RejectedWith(t, "HostUnreachable")

\* C10: a Connect session whose connect fails sends one reply, which is an
\* error reply, ends with an error without having relayed, and its destination
\* socket is closed; no closed session has an open destination socket.
C10_ConnectFailure ==
    [][\A s \in Sessions :
          /\ (pc[s] = "Connecting" /\ Steps(s) /\ pc'[s] = "Closed")
               => /\ Len(Replies(s)') = 1
                  /\ Replies(s)'[1] \in ErrorReplies
                  /\ ~relayed'[s]
                  /\ Failed(s)'
                  /\ dst'[s] = "closed"
          /\ pc'[s] = "Closed" => dst'[s] \in {"none", "closed"}]_vars

C10_Witness ==
    \E s, t \in Sessions :
        /\ pc[s] = "Closed" /\ cmd[s] = "TCPConnect" /\ result[s] = "ConnectFailed"
        /\ Replies(s) = <<"NetworkUnreachable">> /\ dst[s] = "closed" /\ ~relayed[s]
        /\ pc[t] = "Closed" /\ cmd[t] = "TCPConnect" /\ result[t] = "ConnectFailed"
        /\ Replies(t) = <<"GeneralFailure">> /\ dst[t] = "closed" /\ ~relayed[t]

\* The method-selection frames a session has written that select a method.
Selections(s) ==
    SelectSeq(sent[s], LAMBDA f : f \in {"Method:NoAuth", "Method:Password"})
HasRead(s, k) == \E i \in DOMAIN reads[s] : reads[s][i] = k

\* The method of a session is the one its single selection frame announced.
SelectedOnce(s) ==
    /\ Len(Selections(s)) <= 1
    /\ method[s] = "none" <=> Selections(s) = <<>>
    /\ Selections(s) # <<>> => Selections(s)[1] = "Method:" \o method[s]

\* C11 (as stated): every session selects its method at most once, the method
\* is the one announced on the wire, and a session that has read a request has
\* a selected method.
C11_Original ==
    \A s \in Sessions :
        /\ SelectedOnce(s)
        /\ HasRead(s, "request") => method[s] # "none"

\* C11 (amended): as stated, except that in a server started with skip_auth no
\* method is ever selected and the request is read with the method unselected.
C11_MethodFixedBeforeRequest ==
    \A s \in Sessions :
        /\ SelectedOnce(s)
        /\ HasRead(s, "request") => (method[s] = "none" <=> opt.skip_auth)
        /\ opt.skip_auth => method[s] = "none"

C11_Witness ==
    \E s, t \in Sessions :
        /\ ~opt.skip_auth
        /\ HasRead(s, "request") /\ method[s] = "Password"
        /\ Selections(s) = <<"Method:Password">>
        /\ pc[t] = "Authenticating" /\ method[t] = "Password" /\ ~HasRead(t, "request")

\* C12: a Connect session in the relay state with no data in flight in either
\* direction is eventually torn down: it reaches Closed and its destination
\* socket is closed.
C12_IdleRelayTornDown ==
    \A s \in Sessions :
        (pc[s] = "ConnectRelay" /\ RelayIdle(s))
            ~> (pc[s] = "Closed" /\ dst[s] = "closed")

C12_Witness ==
    \E s \in Sessions :
        /\ cmd[s] = "TCPConnect" /\ pc[s] = "Closed"
        /\ result[s] = "IdleTimeout" /\ dst[s] = "closed"
        /\ client_tx[s] # <<>> /\ RelayIdle(s)

\* Everything one session owns.
Local(s) ==
    <<pc[s], inbox[s], method[s], cmd[s], addr[s], dns[s], sent[s], reads[s], dst[s],
      udp[s], relayed[s], result[s], logged[s], ctl[s], client_tx[s], dst_rx[s],
      dst_tx[s], client_rx[s], dgram[s]>>

\* Which steps of its own a session, its client, its resolver and its timers can take.
CanStep(s) ==
    <<ENABLED ClientSend(s), ENABLED DnsAnswer(s), ENABLED SessionStart(s),
      ENABLED ReadFails(s), ENABLED Handshake(s), ENABLED AuthNone(s),
      ENABLED AuthPassword(s), ENABLED ReadCommand(s), ENABLED ResolveDns(s),
      ENABLED ConnectOk(s), ENABLED ConnectFails(s), ENABLED TcpRelayEnds(s),
      ENABLED TcpRelayTimeout(s), ENABLED ClientClosesControl(s),
      ENABLED UdpRelayEnds(s), ENABLED UdpRelayTimeout(s)>>

\* C13: with two sessions running side by side, a step that changes what one
\* session owns changes nothing another session owns and neither enables nor
\* disables a step of another session, and no step changes the shared options.
C13_SessionsIndependent ==
    [][/\ opt' = opt
       /\ \A s, t \in Sessions :
            (s # t /\ Local(t)' # Local(t)) =>
                Local(s)' = Local(s) /\ CanStep(s)' = CanStep(s)]_vars

C13_Witness ==
    \E s, t \in Sessions :
        /\ pc[s] = "Closed" /\ Failed(s) /\ logged[s]
        /\ pc[t] = "ConnectRelay" /\ ~logged[t] /\ method[s] # method[t]

\* C14: in password mode, when the credentials frame is consumed, the pair is
\* accepted if and only if its username equals the configured username and its
\* password equals the configured password; a pair that matches only one of
\* the two is rejected, and so is the configured pair with its two parts
\* swapped when these differ.
C14_ExactCredentials ==
    [][\A s \in Sessions :
          (opt.auth = "Password" /\ pc[s] = "Authenticating"
             /\ inbox[s].kind = "creds" /\ Steps(s))
          => LET u == inbox[s].user
                 p == inbox[s].pass
                 accepted == /\ sent'[s] = Append(sent[s], "Auth:Ok")
                             /\ pc'[s] = "ReadCommand"
                 rejected == /\ sent'[s] = Append(sent[s], "Auth:Fail")
                             /\ result'[s] = "AuthenticationRejected"
             IN  /\ accepted <=> (u = opt.username /\ p = opt.password)
                 /\ accepted \/ rejected
                 /\ (u = opt.username) # (p = opt.password) => rejected
                 /\ (u = opt.password /\ p = opt.username
                       /\ opt.username # opt.password) => rejected]_vars

\* A pair with only the username right, and the swapped pair, were rejected.
C14_Witness ==
    \E s \in Sessions :
        /\ opt.auth = "Password" /\ opt.username # opt.password
        /\ result[s] = "AuthenticationRejected"
        /\ sent[s] = <<"Method:Password", "Auth:Fail">>

IsPrefix(a, b) == Len(a) <= Len(b) /\ \A i \in DOMAIN a : a[i] = b[i]

\* C15: at every moment of a Connect relay the bytes delivered to the
\* destination are a prefix of the bytes the client wrote and the bytes
\* delivered to the client are a prefix of the bytes the destination wrote.
C15_PayloadUnaltered ==
    \A s \in Sessions :
        /\ IsPrefix(dst_rx[s], client_tx[s])
        /\ IsPrefix(client_rx[s], dst_tx[s])

C15_Witness ==
    \E s \in Sessions :
        /\ pc[s] = "ConnectRelay"
        /\ client_tx[s] = <<"x", "y">> /\ dst_rx[s] = <<"x", "y">>
        /\ dst_tx[s] = <<"y", "x">> /\ client_rx[s] = <<"y">>

\* C16: once the control connection of a UDP association has closed, the relay
\* eventually ends with its UDP socket released; a datagram is forwarded only
\* by a running relay through its bound socket, so none is forwarded after the
\* relay has ended.
C16_UdpEndsWithControl ==
    /\ \A s \in Sessions :
         (pc[s] = "UdpRelay" /\ ctl[s] = "closed")
             ~> (pc[s] = "Closed" /\ udp[s] = "closed")
    /\ [][\A s \in Sessions :
            /\ (dgram[s] = "queued" /\ dgram'[s] = "forwarded")
                 => pc[s] = "UdpRelay" /\ udp[s] = "bound"
            /\ pc[s] = "Closed" => pc'[s] = "Closed" /\ udp'[s] # "bound"]_vars

C16_Witness ==
    \E s \in Sessions :
        /\ cmd[s] = "UDPAssociate" /\ pc[s] = "Closed" /\ result[s] = "Ok"
        /\ ctl[s] = "closed" /\ udp[s] = "closed" /\ dgram[s] = "queued"

\* The server stopped at its argument checks: nothing was bound or accepted.
NeverBound == srv \in {"init", "arg_error"} /\ \A s \in Sessions : pc[s] = "Idle"

\* What C17 says of the UDP relay apart from the reply of a refused request.
UdpGated(s) ==
    /\ (pc[s] = "UdpRelay" \/ udp[s] # "none")
         => opt.allow_udp /\ opt.public_addr # "None"
    /\ (opt.allow_udp /\ opt.public_addr = "None") => NeverBound
    /\ result[s] # "invalid reply ip"

\* C17 (as stated): a session is in the UDP relay or owns a UDP socket only
\* with allow_udp set and a public address configured; allow_udp without public
\* address never gets past the argument checks; no session fails with "invalid
\* reply ip"; with allow_udp unset a parsed UDPAssociate request ends with the
\* single reply CommandNotSupported.
C17_Original ==
    [][\A s \in Sessions :
          /\ UdpGated(s)'
          /\ (Running /\ ~opt.allow_udp /\ cmd[s] = "UDPAssociate"
                /\ Steps(s) /\ pc'[s] = "Closed")
               => RejectedWith(s, "CommandNotSupported")']_vars

\* C17 (amended): as stated, except that with allow_udp unset a UDPAssociate
\* request whose destination is a domain name that fails to resolve is refused
\* with HostUnreachable instead of CommandNotSupported.
C17_UdpRelayGated ==
    [][\A s \in Sessions :
          /\ UdpGated(s)'
          /\ (Running /\ ~opt.allow_udp /\ cmd[s] = "UDPAssociate"
                /\ Steps(s) /\ pc'[s] = "Closed")
               => IF addr[s] = "Domain" /\ dns[s] = "fail"
                  THEN RejectedWith(s, "HostUnreachable")'
                  ELSE RejectedWith(s, "CommandNotSupported")']_vars

C17_Witness ==
    \E s, t \in Sessions :
        /\ ~opt.allow_udp /\ opt.public_addr = "Ip"
        /\ cmd[s] = "UDPAssociate" /\ RejectedWith(s, "CommandNotSupported")
        /\ cmd[t] = "UDPAssociate" /\ RejectedWith(t, "HostUnreachable")

\* C18: skip_auth with password authentication never gets past the argument
\* checks; in a running password-mode server a session that has read a request,
\* sent a reply or relayed has been sent the success byte of the password
\* sub-negotiation before; with skip_auth set a session reads nothing but the
\* request and neither reads nor writes method-selection bytes.
C18_SkipOnlyWithoutAuth ==
    /\ (opt.skip_auth /\ opt.auth = "Password") => NeverBound
    /\ \A s \in Sessions :
         /\ (opt.auth = "Password"
               /\ (HasRead(s, "request") \/ Replies(s) # <<>> \/ relayed[s]
                     \/ Relaying(s) \/ pc[s] \in {"ReadCommand", "Resolving", "Connecting"}))
              => /\ Len(sent[s]) >= 2
                 /\ SubSeq(sent[s], 1, 2) = <<"Method:Password", "Auth:Ok">>
                 /\ SubSeq(reads[s], 1, 2) = <<"methods", "creds">>
         /\ opt.skip_auth
              => /\ reads[s] \in {<<>>, <<"request">>}
                 /\ Selections(s) = <<>>
                 /\ \A i \in DOMAIN sent[s] : sent[s][i] \in ReplyStatus
                 /\ pc[s] \notin {"Handshake", "Authenticating"}

C18_Witness ==
    \E s, t \in Sessions :
        /\ opt.skip_auth /\ Running
        /\ reads[s] = <<"request">> /\ sent[s] = <<"Succeeded">> /\ Relaying(s)
        /\ reads[t] = <<"request">> /\ pc[t] = "Closed" /\ Failed(t)

\* C19: every session sends at most one reply frame over its whole life.
C19_AtMostOneReply == \A s \in Sessions : Len(Replies(s)) <= 1

\* A failed resolution of an unsupported command was answered once.
C19_Witness ==
    \E s \in Sessions :
        /\ pc[s] = "Closed" /\ cmd[s] = "TCPBind"
        /\ result[s] = "DnsResolveFailed" /\ Replies(s) = <<"HostUnreachable">>

\* The session is at a read of the client socket and the client has sent nothing.
WaitsForClient(s) == ReadPoint(s) /\ inbox[s] = NoFrame

\* Datagrams keep arriving, so the inactivity limit of the UDP relay never elapses.
DatagramsForEver(s) == []<>(dgram[s] = "queued")

\* C20 (as stated): under fair scheduling of its task and with the timers
\* elapsing, every accepted session eventually reaches Closed, whatever the
\* client does.
C20_Original ==
    \A s \in Sessions :
        \/ pc[s] = "Start" ~> pc[s] = "Closed"
        \/ DatagramsForEver(s)

\* C20 (amended): under the same fairness every accepted session eventually
\* reaches Closed unless it waits for ever at a read of the handshake, of the
\* password sub-negotiation or of the request for a client that neither sends
\* nor closes.
C20_ClosesUnlessClientStalls ==
    \A s \in Sessions :
        \/ pc[s] = "Start" ~> pc[s] = "Closed"
        \/ <>[]WaitsForClient(s)
        \/ DatagramsForEver(s)

\* A client that went silent in the relay with its connection open was closed
\* by the timer.
C20_Witness ==
    \E s \in Sessions :
        /\ pc[s] = "Closed" /\ result[s] = "IdleTimeout"
        /\ cmd[s] = "UDPAssociate" /\ ctl[s] = "open" /\ udp[s] = "closed"

====
